---------------------------- MODULE Spec2Model ----------------------------
(***************************************************************************)
(* Model of src/modules/promises.js of mentie: make_retryable (a task      *)
(* wrapped in promise-retry), throttle_and_retry (the wrapped tasks run    *)
(* through promise-parallel-throttle's Throttle.all) and promise_timeout   *)
(* (a promise raced against a timer); and of the log functions of          *)
(* src/modules/logging.js and cache of src/modules/cache.js, in the        *)
(* environment src/modules/environment.js detects.                         *)
(*                                                                         *)
(* Every callback of the program is one action.  Promise reactions run in  *)
(* the order they were queued (jobs); a timer callback runs only when no   *)
(* reaction is queued; the promise a task returned may settle at any       *)
(* moment.                                                                 *)
(*                                                                         *)
(* The two libraries are called with the arguments promises.js gives them: *)
(* Retrier( fn ) without options, so promise-retry runs with the defaults  *)
(* of the retry package (10 retries), and Throttle.all( tasks,             *)
(* { maxInProgress, failFast, progressCallback } ).                        *)
(***************************************************************************)
EXTENDS Integers, Sequences, FiniteSets, TLC

\* ------------------------------------------------------------------ bounds

\* Largest number of tasks handed to one call.
MaxTasks == 3

\* Largest small retry_times drawn (the value past the library's own limit
\* is drawn besides, see RetryTimesValues).
MaxRetryTimes == 2

\* Largest max_parallel drawn.
MaxParallel == 2

\* Largest batch drawn together with the retry_times past the library's
\* limit (each of its tasks can run eleven attempts).
MaxDeepTasks == 1

\* Largest batch and largest small retry_times run under fairness.
MaxLiveTasks == 3
MaxLiveRetryTimes == 1

\* Largest batch with fail_fast run under fairness.
MaxFailFastTasks == 2

\* Largest number of calls of the log functions and of cache.
MaxCalls == 2

\* ------------------------------------------------------- program constants

\* promise-retry is called without options (promises.js line 25): the retry
\* package then schedules at most its default of 10 retries.
LibRetries == 10

\* Math.random() lies in [0, 1): entropy = .1 + Math.random() lies in
\* [0.1, 1.1), in milliseconds 100 .. 1099 (promises.js line 37).
EntropyMinMs == 100
EntropyMaxMs == 1099

\* The defaults of throttle_and_retry (line 72) and of make_retryable
\* (line 15) for retry_times and cooldown_in_s.
BatchDefaultRetryTimes == 2
BatchDefaultCooldownInS == 5
RetryableDefaultRetryTimes == 5
RetryableDefaultCooldownInS == 10

\* The most tasks of a batch whose retry policy is drawn freely or omitted.
MaxPolicyTasks == 2

\* retry_times drawn: the small values and one the library's limit cuts short.
RetryTimesValues == (0 .. MaxRetryTimes) \cup {LibRetries + 2}

\* cooldown_in_s drawn: the defaults of throttle_and_retry (line 72) and
\* make_retryable (line 15).
CooldownValues == {5, 10}

VARIABLES
    entry,              \* which exported function the caller called
    retry_times,        \* options.retry_times
    cooldown_in_s,      \* options.cooldown_in_s
    cooldown_entropy,   \* options.cooldown_entropy
    policy_given,       \* whether the caller's options held those three fields
    nTasks,             \* async_function_array.length (1 for make_retryable)
    rstate,             \* per task: where its retryable function stands
    retry_counter,      \* per task: the attempt number promise-retry passes
    invocations,        \* per task: how many times async_function() was called
    settled,            \* per task: what the retryable function settled with
    waited,             \* per task: the milliseconds passed to wait(), in order
    rlog,               \* per task: the values its retrier passed to logger
    max_parallel,       \* options.max_parallel
    fail_fast,          \* options.fail_fast
    input_kind,         \* what the caller passed as async_function_array
    tslot,              \* per task: where the throttle stands with it
    amountStarted,      \* Throttle: result.amountStarted
    amountDone,         \* Throttle: result.amountDone
    currentTaskIndex,   \* Throttle: currentTaskIndex
    failedFast,         \* Throttle: failedFast
    taskResults,        \* Throttle: result.taskResults
    rejectedIndexes,    \* Throttle: result.rejectedIndexes
    raw,                \* Throttle: the promise of raw(): pending, resolved, rejected
    batch,              \* the promise throttle_and_retry returned
    tlog,               \* the values throttle_and_retry and Throttle passed to logger
    jobs,               \* the promise reactions queued and not yet run, oldest first
    throw_on_timeout,   \* promise_timeout: its third argument
    op,                 \* promise_timeout: the promise passed as first argument
    timer,              \* promise_timeout: the setTimeout of line 116
    race,               \* promise_timeout: the promise of Promise.race (line 119)
    guard,              \* promise_timeout: the promise the async function returned
    adopted,            \* promise_timeout: guard has subscribed to race
    settle_order,       \* promise_timeout: "op" and "timer" in the order they happened
    dev,                \* environment.js: the exported dev
    is_emulator,        \* environment.js: the exported is_emulator
    web_loglevel,       \* environment.js: the exported web_loglevel
    node_loglevel,      \* environment.js: the exported node_loglevel
    console,            \* what was written to the console, oldest first
    _cache,             \* cache.js: the object _cache, by key
    last_call,          \* the last call of log, log.info, log.warn, log.error or cache
    n_calls             \* how many such calls were made

retrierVars == <<rstate, retry_counter, invocations, settled, waited, rlog>>

throttleVars == <<tslot, amountStarted, amountDone, currentTaskIndex, failedFast,
                  taskResults, rejectedIndexes, raw, batch, tlog>>

timeoutVars == <<throw_on_timeout, op, timer, race, guard, adopted, settle_order>>

envVars == <<dev, is_emulator, web_loglevel, node_loglevel>>

utilVars == <<envVars, console, _cache, last_call, n_calls>>

vars == <<entry, retry_times, cooldown_in_s, cooldown_entropy, policy_given, nTasks,
          max_parallel, fail_fast, input_kind, retrierVars, throttleVars, jobs,
          timeoutVars, utilVars>>

Tasks == 0 .. (nTasks - 1)

\* ---------------------------------------------------------------- payloads

\* What attempt n of task i produces: the value its promise resolves with,
\* the failure its promise rejects with, the exception it throws before
\* returning a promise.  Each is distinct, so a payload tells its origin.
Val(i, n) == <<"value", i, n>>
Err(i, n) == <<"error", i, n>>
Thrown(i, n) == <<"thrown", i, n>>

\* JavaScript's undefined, and a promise that has not settled.
Undefined == <<"undefined">>
Pending == <<"pending">>

\* ------------------------------------------------------------ the job queue

\* The reactions: the callback of promise-retry that calls the task, the
\* reaction .catch (line 28) put on the task's promise, the callback of
\* Throttle's nextCheck, the callbacks Throttle gave the retryable
\* function's promise, the callback of Throttle.all.
InvokeJob(i) == <<"invoke", i>>
CatchJob(i) == <<"catch", i>>
CheckJob(i) == <<"check", i>>
ThenJob(i) == <<"then", i>>
SettleJob == <<"settle">>

\* Job j is the next reaction to run.
IsNext(j) == jobs # <<>> /\ Head(jobs) = j

\* The retryable function of task i settled: the reaction Throttle
\* registered on its promise, if it registered one, is queued.
Notify(i) == IF tslot[i] = "executing" THEN <<ThenJob(i)>> ELSE <<>>

\* ----------------------------------------------------------- make_retryable

\* A retrier that gives up one attempt too late.
ExhaustedLate(counter, times) == counter > times + 1

\* Line 31: the retrier gives up when the attempt number has reached
\* retry_times.  promise-retry numbers the attempts from 1.
Exhausted(counter, times) == counter >= times

\* One attempt counter for the whole batch: the highest any task has reached.
AttemptNumberShared(counters, i) ==
    CHOOSE m \in {counters[j] : j \in DOMAIN counters} :
        \A j \in DOMAIN counters : counters[j] <= m

\* Lines 25 and 87-88: every task gets a retryable function of its own, and
\* each call of it an operation of promise-retry with its own attempt number.
AttemptNumber(counters, i) == counters[i]

\* Line 37.
EntropyChoices(with_entropy) ==
    IF with_entropy THEN {EntropyMinMs, EntropyMaxMs} ELSE {0}

\* Lines 38-39, in milliseconds.
CooldownInMs(in_s, entropy_ms) == in_s * 1000 + entropy_ms

\* A cooldown that does not grow with the attempt number.
CooldownFlat(in_s, entropy_ms, counter) == CooldownInMs(in_s, entropy_ms)

Cooldown(in_s, entropy_ms, counter) ==
    CooldownInMs(in_s, entropy_ms)
        + CooldownInMs(in_s, entropy_ms) * (counter - 1)

\* Lines 32, 42, 44: the values passed to logger.
LogDefinitive(counter, times) ==
    [message |-> "Retry failed definitively",
     data |-> [retry_counter |-> counter, retry_times |-> times]]
LogPausing(counter, times, in_s, entropy_ms) ==
    [message |-> "Retry failed, pausing...",
     data |-> [retry_counter |-> counter, retry_times |-> times,
               cooldown_in_s |-> in_s,
               cooldown_in_ms |-> CooldownInMs(in_s, entropy_ms),
               cooldown |-> Cooldown(in_s, entropy_ms, counter)]]
LogContinuing(counter, times) ==
    [message |-> "Cooldown complete, continuing...",
     data |-> [retry_counter |-> counter, retry_times |-> times]]

\* promise-retry: operation.retry( err ) schedules another attempt while one
\* of the retry package's timeouts is left; attempt number c has used c - 1.
LibRetryLeft(counter) == counter <= LibRetries

\* promise-retry: the timeout the retry package puts before attempt number
\* counter + 1, with its defaults (minTimeout 1000, factor 2, no
\* randomization), in milliseconds.
LibTimeoutMs(counter) == 1000 * 2 ^ (counter - 1)

\* Timers that are cleared once the batch has failed.
TimerCleared(batch_failed) == ~batch_failed

\* wait( cooldown ) (line 43) and promise-retry set timers that nothing
\* clears: a timer fires whatever has become of the batch.
TimerStands(batch_failed) == TRUE

\* What the retryable function rejects with when the catch handler of line 28
\* rethrows (line 33): the failure it was given.
Rethrow(e) == e

\* retryable_function() (line 25): promise-retry starts an operation and
\* queues the first call of the callback, with attempt number 1.
StartRetrier(i) ==
    /\ rstate[i] = "uncalled"
    /\ rstate' = [rstate EXCEPT ![i] = "scheduled"]
    /\ retry_counter' = [retry_counter EXCEPT ![i] = 1]
    /\ UNCHANGED <<invocations, settled, waited, rlog>>

\* The callback of line 25 runs: async_function() is called (line 28).  It
\* returns a promise, or throws before returning one; then .catch is never
\* reached, the callback throws, and promise-retry rejects with the
\* exception, which is none of its own retry errors.
InvokeTask(i) ==
    /\ IsNext(InvokeJob(i))
    /\ rstate[i] = "scheduled"
    /\ invocations' = [invocations EXCEPT ![i] = @ + 1]
    /\ \/ /\ rstate' = [rstate EXCEPT ![i] = "running"]
          /\ jobs' = Tail(jobs)
          /\ UNCHANGED settled
       \/ /\ rstate' = [rstate EXCEPT ![i] = "rejected"]
          /\ settled' = [settled EXCEPT ![i] = Thrown(i, invocations[i] + 1)]
          /\ jobs' = Tail(jobs) \o Notify(i)
    /\ UNCHANGED <<retry_counter, waited, rlog>>

\* A callback that does not return the promise of line 28.
PassOnNothing(v) == Undefined

\* Line 28: the callback returns the promise of async_function().catch( ... ),
\* which passes a resolved value on.
PassOn(v) == v

\* The promise the task returned settles (the task's own doing): the
\* reaction of .catch is queued.
PromiseFulfils(i) ==
    /\ rstate[i] = "running"
    /\ rstate' = [rstate EXCEPT ![i] = "fulfilled"]
    /\ jobs' = Append(jobs, CatchJob(i))
    /\ UNCHANGED <<retry_counter, invocations, settled, waited, rlog>>

PromiseRejects(i) ==
    /\ rstate[i] = "running"
    /\ rstate' = [rstate EXCEPT ![i] = "failed"]
    /\ jobs' = Append(jobs, CatchJob(i))
    /\ UNCHANGED <<retry_counter, invocations, settled, waited, rlog>>

\* The task's promise was fulfilled: .catch passes the value on and
\* promise-retry resolves with it.
TaskResolves(i) ==
    /\ IsNext(CatchJob(i))
    /\ rstate[i] = "fulfilled"
    /\ rstate' = [rstate EXCEPT ![i] = "resolved"]
    /\ settled' = [settled EXCEPT ![i] = PassOn(Val(i, invocations[i]))]
    /\ jobs' = Tail(jobs) \o Notify(i)
    /\ UNCHANGED <<retry_counter, invocations, waited, rlog>>

\* The task's promise was rejected: the handler of lines 28-43 runs up to
\* its await of wait( cooldown ).
TaskRejects(i) ==
    /\ IsNext(CatchJob(i))
    /\ rstate[i] = "failed"
    /\ IF Exhausted(AttemptNumber(retry_counter, i), retry_times)
       THEN /\ rlog' = [rlog EXCEPT ![i] =
                           Append(@, LogDefinitive(retry_counter[i], retry_times))]
            /\ rstate' = [rstate EXCEPT ![i] = "rejected"]
            /\ settled' = [settled EXCEPT ![i] = Rethrow(Err(i, invocations[i]))]
            /\ jobs' = Tail(jobs) \o Notify(i)
            /\ UNCHANGED waited
       ELSE \E entropy_ms \in EntropyChoices(cooldown_entropy) :
            /\ rlog' = [rlog EXCEPT ![i] =
                           Append(@, LogPausing(retry_counter[i], retry_times,
                                                cooldown_in_s, entropy_ms))]
            /\ waited' = [waited EXCEPT ![i] =
                           Append(@, Cooldown(cooldown_in_s, entropy_ms,
                                              retry_counter[i]))]
            /\ rstate' = [rstate EXCEPT ![i] = "cooldown"]
            /\ jobs' = Tail(jobs)
            /\ UNCHANGED settled
    /\ UNCHANGED <<retry_counter, invocations>>

\* wait( cooldown ) is over (lines 44-47): the handler logs and calls
\* do_retry(), which throws promise-retry's retry error carrying no failure
\* (do_retry is called without one).  promise-retry then asks the retry
\* package for another attempt; when none is left it rejects with what the
\* retry error carries, undefined.
CooldownDone(i) ==
    /\ jobs = <<>>
    /\ rstate[i] = "cooldown"
    /\ TimerStands(failedFast)
    /\ rlog' = [rlog EXCEPT ![i] =
                   Append(@, LogContinuing(retry_counter[i], retry_times))]
    /\ IF LibRetryLeft(retry_counter[i])
       THEN /\ rstate' = [rstate EXCEPT ![i] = "libwait"]
            /\ UNCHANGED <<settled, jobs>>
       ELSE /\ rstate' = [rstate EXCEPT ![i] = "rejected"]
            /\ settled' = [settled EXCEPT ![i] = Undefined]
            /\ jobs' = jobs \o Notify(i)
    /\ UNCHANGED <<retry_counter, invocations, waited>>

\* The retry package's own timer fires: the callback is queued again with
\* the next attempt number.
LibTimerFires(i) ==
    /\ jobs = <<>>
    /\ rstate[i] = "libwait"
    /\ TimerStands(failedFast)
    /\ jobs' = <<InvokeJob(i)>>
    /\ rstate' = [rstate EXCEPT ![i] = "scheduled"]
    /\ retry_counter' = [retry_counter EXCEPT ![i] = @ + 1]
    /\ UNCHANGED <<invocations, settled, waited, rlog>>

\* -------------------------------------------------------- throttle_and_retry

\* An index of result.taskResults nothing was assigned to.
Empty == <<"empty">>

\* The Error of line 79.
InputError == <<"Error", "async_function_array must be an array of functions">>

\* An input check that only looks at Array.isArray.
ValidInputArrayOnly(kind) == kind # "not_array"

\* Line 78: the input passes when it is an array and each of its elements
\* is a function.
ValidInput(kind) == kind \notin {"not_array", "has_non_function"}

\* The larger of two numbers in place of the smaller.
Larger(a, b) == IF a < b THEN b ELSE a

\* Math.min.
Min(a, b) == IF a < b THEN a ELSE b

\* A throttle configuration that lets one task run at a time.
MaxInProgressOne(parallel) == 1

\* maxInProgress of the throttle configuration (line 94) is max_parallel.
MaxInProgressOption(parallel) == parallel

\* A first loop that ignores maxInProgress.
FirstSpawnAll(maxInProgress, length) == length

\* Throttle: the loop "spawn the first X task" runs
\* Math.min( maxInProgress, tasks.length ) times.
FirstSpawn(maxInProgress, length) == Min(maxInProgress, length)

\* A first loop that runs from the last index down.
SpawnIndexReversed(k, spawned) == spawned - k

\* Throttle: the k-th pass of the first loop calls
\* nextTask( currentTaskIndex++ ), with index k - 1.
SpawnIndex(k, spawned) == k - 1

\* Results pushed in the order of completion.
StoreResultPushed(results, index, value) ==
    LET free == {k \in DOMAIN results : results[k] = Empty}
        first == CHOOSE k \in free : \A j \in free : k <= j
    IN  [results EXCEPT ![first] = value]

\* Throttle: result.taskResults[ index ] = value.
StoreResult(results, index, value) == [results EXCEPT ![index] = value]

\* The length of the JavaScript array result.taskResults: one more than the
\* largest index assigned.
ArrayLength(results) ==
    IF \A i \in DOMAIN results : results[i] = Empty
    THEN 0
    ELSE 1 + CHOOSE i \in DOMAIN results :
                 /\ results[i] # Empty
                 /\ \A j \in DOMAIN results : results[j] # Empty => j <= i

\* A Throttle that takes an empty task list through its loops.
NothingToRunNever(length) == FALSE

\* Throttle: raw() resolves at once when tasks.length is 0.
NothingToRun(length) == length = 0

\* A Throttle that admits nothing after the first spawn.
MoreTasksNever(index, length) == FALSE

\* Throttle's taskDone: another task is admitted while currentTaskIndex is
\* below tasks.length.
MoreTasks(index, length) == index < length

\* Throttle's default nextCheck, evaluated when nextTask calls it.
NextCheck(started, length) == started < length

\* Lines 86 and 100, and Throttle's progressCallback( result ): the values
\* passed to logger.  Lines 86 and 100 pass a template string (line 100 a
\* second argument, throttle_config, besides): the model keeps its fixed
\* text and the values put into it.  Throttle passes its Result object, of
\* which the model keeps amountDone.
LogCreating(length) == [text |-> "Creating retryable functions", length |-> length]
LogStarting(length, maxInProgress, failFast) ==
    [text |-> "Starting queue of functions with options: ", length |-> length,
     throttle_config |-> [maxInProgress |-> maxInProgress, failFast |-> failFast]]
LogProgress(done) == [result |-> [amountDone |-> done]]

\* Nothing of a batch exists (make_retryable called on its own).
ThrottleIdle ==
    /\ tslot = [i \in Tasks |-> "pending"]
    /\ amountStarted = 0
    /\ amountDone = 0
    /\ currentTaskIndex = 0
    /\ failedFast = FALSE
    /\ taskResults = [i \in Tasks |-> Empty]
    /\ rejectedIndexes = <<>>
    /\ raw = "none"
    /\ batch = [state |-> "none", value |-> Undefined]
    /\ tlog = <<>>
    /\ jobs = <<>>

\* throttle_and_retry( async_function_array, options ), lines 72-101, up to
\* the end of the synchronous part of Throttle.all: the input check, the two
\* logger calls, the tasks wrapped, and Throttle's first nextTask calls (each
\* calls nextCheck, whose promise is then pending).
CallThrottle ==
    /\ batch.state = "none"
    /\ IF ~ValidInput(input_kind)
       THEN /\ batch' = [state |-> "rejected", value |-> InputError]
            /\ UNCHANGED <<tslot, currentTaskIndex, raw, tlog, jobs>>
       ELSE /\ tlog' = tlog \o <<LogCreating(nTasks),
                                 LogStarting(nTasks, max_parallel, fail_fast)>>
            /\ batch' = [state |-> "pending", value |-> Undefined]
            /\ IF NothingToRun(nTasks)
               THEN /\ raw' = "resolved"
                    /\ jobs' = Append(jobs, SettleJob)
                    /\ UNCHANGED <<tslot, currentTaskIndex>>
               ELSE /\ raw' = "pending"
                    /\ currentTaskIndex' =
                          FirstSpawn(MaxInProgressOption(max_parallel), nTasks)
                    /\ jobs' = jobs \o
                          [k \in 1 .. FirstSpawn(MaxInProgressOption(max_parallel),
                                                 nTasks) |->
                              CheckJob(SpawnIndex(k,
                                  FirstSpawn(MaxInProgressOption(max_parallel),
                                             nTasks)))]
                    /\ tslot' = [i \in Tasks |->
                                   IF i < FirstSpawn(MaxInProgressOption(max_parallel),
                                                     nTasks)
                                   THEN IF NextCheck(amountStarted, nTasks)
                                        THEN "check_true" ELSE "check_false"
                                   ELSE "pending"]
    /\ UNCHANGED <<amountStarted, amountDone, failedFast, taskResults,
                   rejectedIndexes, retrierVars>>

\* Throttle's taskDone(), run by a reaction that leaves the tasks' slots as
\* slots and the queue as rest: nothing once failedFast; else count, report
\* progress, resolve when all are done, or call nextTask for the next index.
TaskDone(slots, rest) ==
    IF failedFast
    THEN /\ tslot' = slots
         /\ jobs' = rest
         /\ UNCHANGED <<amountDone, tlog, raw, currentTaskIndex>>
    ELSE /\ amountDone' = amountDone + 1
         /\ tlog' = Append(tlog, LogProgress(amountDone + 1))
         /\ IF amountDone + 1 = nTasks
            THEN /\ raw' = "resolved"
                 /\ jobs' = Append(rest, SettleJob)
                 /\ tslot' = slots
                 /\ UNCHANGED currentTaskIndex
            ELSE /\ UNCHANGED raw
                 /\ IF MoreTasks(currentTaskIndex, nTasks)
                    THEN /\ currentTaskIndex' = currentTaskIndex + 1
                         /\ jobs' = Append(rest, CheckJob(currentTaskIndex))
                         /\ tslot' = [slots EXCEPT ![currentTaskIndex] =
                                         IF NextCheck(amountStarted, nTasks)
                                         THEN "check_true" ELSE "check_false"]
                    ELSE /\ tslot' = slots
                         /\ jobs' = rest
                         /\ UNCHANGED currentTaskIndex

\* Throttle: the promise of nextCheck resolved and its callback runs:
\* executeTask( index ) counts the task as started and calls the retryable
\* function; a check that said no counts the task as done.
NextCheckDone(i) ==
    /\ IsNext(CheckJob(i))
    /\ IF tslot[i] = "check_true"
       THEN /\ amountStarted' = amountStarted + 1
            /\ tslot' = [tslot EXCEPT ![i] = "executing"]
            /\ jobs' = Append(Tail(jobs), InvokeJob(i))
            /\ StartRetrier(i)
            /\ UNCHANGED <<amountDone, currentTaskIndex, failedFast, taskResults,
                           rejectedIndexes, raw, batch, tlog>>
       ELSE /\ TaskDone([tslot EXCEPT ![i] = "handled"], Tail(jobs))
            /\ UNCHANGED <<amountStarted, failedFast, taskResults, rejectedIndexes,
                           batch, retrierVars>>

\* Throttle: the retryable function's promise resolved and the callback of
\* executeTask stores the value and calls taskDone().
ThenResolved(i) ==
    /\ IsNext(ThenJob(i))
    /\ tslot[i] = "executing"
    /\ rstate[i] = "resolved"
    /\ taskResults' = StoreResult(taskResults, i, settled[i])
    /\ TaskDone([tslot EXCEPT ![i] = "handled"], Tail(jobs))
    /\ UNCHANGED <<amountStarted, failedFast, rejectedIndexes, batch, retrierVars>>

\* A throttle configuration without failFast: Throttle's default is false.
FailFastOptionDropped(fail) == FALSE

\* failFast of the throttle configuration (line 95) is the call's fail_fast.
FailFastOption(fail) == fail

\* Throttle: the retryable function's promise rejected and handleError runs:
\* the failure is stored; with failFast the batch is rejected and nothing
\* more is counted, else taskDone().
ThenRejected(i) ==
    /\ IsNext(ThenJob(i))
    /\ tslot[i] = "executing"
    /\ rstate[i] = "rejected"
    /\ taskResults' = StoreResult(taskResults, i, settled[i])
    /\ rejectedIndexes' = Append(rejectedIndexes, i)
    /\ IF FailFastOption(fail_fast)
       THEN /\ failedFast' = TRUE
            /\ raw' = "rejected"
            /\ jobs' = IF raw = "pending"
                        THEN Append(Tail(jobs), SettleJob) ELSE Tail(jobs)
            /\ tslot' = [tslot EXCEPT ![i] = "handled"]
            /\ UNCHANGED <<amountDone, currentTaskIndex, tlog>>
       ELSE /\ TaskDone([tslot EXCEPT ![i] = "handled"], Tail(jobs))
            /\ UNCHANGED failedFast
    /\ UNCHANGED <<amountStarted, batch, retrierVars>>

\* Throttle.all: the promise of raw() settled and the callback of executeRaw
\* runs: the batch resolves with result.taskResults, or rejects with the
\* entry of the first rejected index.
AllSettles ==
    /\ IsNext(SettleJob)
    /\ batch.state = "pending"
    /\ raw \in {"resolved", "rejected"}
    /\ jobs' = Tail(jobs)
    /\ batch' = IF raw = "resolved"
                THEN [state |-> "resolved", value |-> taskResults]
                ELSE [state |-> "rejected",
                      value |-> taskResults[rejectedIndexes[1]]]
    /\ UNCHANGED <<tslot, amountStarted, amountDone, currentTaskIndex, failedFast,
                   taskResults, rejectedIndexes, raw, tlog, retrierVars>>

\* ----------------------------------------------------------- promise_timeout

\* What the operation can settle with: a value or a failure of its own, or
\* undefined (a promise resolved or rejected without an argument).
OpVal == <<"value", "op">>
OpErr == <<"error", "op">>
OpValues == {OpVal, Undefined}
OpFailures == {OpErr, Undefined}

\* The string of line 116.
TimedOut == <<"string", "timed out">>

Unsettled == [state |-> "pending", value |-> Undefined]

\* The reactions: the one Promise.race put on the operation or on the
\* timeout promise, the job that makes the async function's promise follow
\* the promise it returned, and the reaction that job put on race.
RaceJob(source) == <<"race", source>>
ThenableJob == <<"thenable">>
GuardJob == <<"guard">>

\* A timeout that resolves with nothing.
TimeoutOutcomeBare(throws) ==
    [state |-> IF throws THEN "rejected" ELSE "resolved", value |-> Undefined]

\* Line 116: what the timeout promise settles with when the timer fires.
\* setTimeout calls its callback without arguments: with throw_on_timeout
\* the callback is rej, and the promise rejects with undefined; else the
\* callback resolves it with 'timed out'.
TimeoutOutcome(throws) ==
    IF throws
    THEN [state |-> "rejected", value |-> Undefined]
    ELSE [state |-> "resolved", value |-> TimedOut]

\* A race that follows whatever settled last.
LastSettled(current, incoming) == incoming

\* Promise.race (line 119): the promise settles once, with the first of its
\* inputs whose reaction runs.
FirstSettled(current, incoming) ==
    IF current.state = "pending" THEN incoming ELSE current

\* Nothing of a promise_timeout call exists.
TimeoutIdle ==
    /\ throw_on_timeout = TRUE
    /\ op = Unsettled
    /\ timer = "none"
    /\ race = [state |-> "none", value |-> Undefined]
    /\ guard = [state |-> "none", value |-> Undefined]
    /\ adopted = FALSE
    /\ settle_order = <<>>

\* A race that only hears of inputs that settle after it subscribed.
RaceMissesSettled(operation) == <<>>

\* Promise.race (lines 119-122) calls then on the operation's promise, its
\* first input: when that promise has settled already, the reaction is
\* queued at once, before the timer can fire.
RaceSubscribes(operation) ==
    IF operation.state = "pending" THEN <<>> ELSE <<RaceJob("op")>>

\* promise_timeout( promise, timeout_in_ms, throw_on_timeout ), lines 113-128:
\* Promise.race subscribes to the operation (whose reaction is queued at once
\* when it has settled already), timeout() arms the timer, and the async
\* function's promise is resolved with the promise of Promise.race.
CallTimeout ==
    /\ guard.state = "none"
    /\ timer' = "armed"
    /\ race' = Unsettled
    /\ guard' = Unsettled
    /\ jobs' = RaceSubscribes(op) \o <<ThenableJob>>
    /\ settle_order' = IF op.state = "pending" THEN <<>> ELSE <<"op">>
    /\ UNCHANGED <<throw_on_timeout, op, adopted>>

\* An operation that is cancelled when the timer fires.
OpCancelledByTimer(timer_state) == timer_state # "fired"

\* Lines 116-126: promise_timeout holds nothing but the operation's promise
\* and does nothing to it when the timer fires; the operation settles when it
\* settles.
OpRunsOn(timer_state) == TRUE

\* The operation settles (its own doing): the reaction of Promise.race is
\* queued.
OpFulfils ==
    /\ guard.state # "none"
    /\ op.state = "pending"
    /\ OpRunsOn(timer)
    /\ \E v \in OpValues : op' = [state |-> "resolved", value |-> v]
    /\ jobs' = Append(jobs, RaceJob("op"))
    /\ settle_order' = Append(settle_order, "op")
    /\ UNCHANGED <<throw_on_timeout, timer, race, guard, adopted>>

OpRejects ==
    /\ guard.state # "none"
    /\ op.state = "pending"
    /\ OpRunsOn(timer)
    /\ \E e \in OpFailures : op' = [state |-> "rejected", value |-> e]
    /\ jobs' = Append(jobs, RaceJob("op"))
    /\ settle_order' = Append(settle_order, "op")
    /\ UNCHANGED <<throw_on_timeout, timer, race, guard, adopted>>

\* The timer of line 116 fires (nothing clears it): the timeout promise
\* settles and the reaction of Promise.race is queued.
TimerFires ==
    /\ jobs = <<>>
    /\ timer = "armed"
    /\ timer' = "fired"
    /\ jobs' = <<RaceJob("timer")>>
    /\ settle_order' = Append(settle_order, "timer")
    /\ UNCHANGED <<throw_on_timeout, op, race, guard, adopted>>

\* A reaction of Promise.race runs: the promise of the race takes the
\* outcome of that input unless it has settled before; when it settles, the
\* reaction the async function's promise put on it is queued.
RaceReaction(source) ==
    /\ IsNext(RaceJob(source))
    /\ race' = FirstSettled(race, IF source = "op"
                                    THEN op ELSE TimeoutOutcome(throw_on_timeout))
    /\ jobs' = Tail(jobs) \o (IF race.state = "pending" /\ adopted
                               THEN <<GuardJob>> ELSE <<>>)
    /\ UNCHANGED <<throw_on_timeout, op, timer, guard, adopted, settle_order>>

\* The async function's promise subscribes to the promise it was resolved
\* with.
GuardAdopts ==
    /\ IsNext(ThenableJob)
    /\ adopted' = TRUE
    /\ jobs' = Tail(jobs) \o (IF race.state = "pending"
                               THEN <<>> ELSE <<GuardJob>>)
    /\ UNCHANGED <<throw_on_timeout, op, timer, race, guard, settle_order>>

\* The promise promise_timeout returned settles as the race did.
GuardSettles ==
    /\ IsNext(GuardJob)
    /\ guard.state = "pending"
    /\ guard' = race
    /\ jobs' = Tail(jobs)
    /\ UNCHANGED <<throw_on_timeout, op, timer, race, adopted, settle_order>>

\* ------------------------------------------------- environment.js, logging.js

\* JavaScript values other than undefined.
JsNull == <<"null">>
JsFalse == <<"boolean", "false">>
JsZero == <<"number", "0">>
JsOne == <<"number", "1">>
Str(text) == <<"string", text>>

\* JavaScript's truthiness, over the values above.
Truthy(v) == v \notin {Undefined, JsNull, JsFalse, JsZero, Str("")}

\* What ?loglevel= or LOG_LEVEL= can be set to.
LevelSettings == {Str("info"), Str("warn"), Str("error")}

\* env.web_loglevel() (line 66): false outside a browser, null without the
\* parameter, else the parameter.  env.node_loglevel() (line 72): false
\* outside Node, undefined without the variable, else the variable.
WebLoglevels == {JsFalse, JsNull} \cup LevelSettings
NodeLoglevels == {JsFalse, Undefined} \cup LevelSettings

\* environment.js line 78, as JavaScript groups it:
\* ( web_loglevel() || node_loglevel() || dev() ) ? 'info' : 'error'.
loglevel ==
    IF Truthy(web_loglevel) \/ Truthy(node_loglevel) \/ dev
    THEN "info" ELSE "error"

\* logging.js line 7.
valid_levels == {"info", "warn", "error"}

\* should_log (lines 4-14): what it writes to the console and what it
\* returns.
InvalidLevelWarning ==
    IF loglevel \in valid_levels
    THEN <<>>
    ELSE <<[method |-> "warn", messages |-> <<Str("Invalid log level"), Str(loglevel)>>]>>
should_log(levels) == loglevel \in levels

\* log, log.info, log.warn (lines 87-153): the function's own flag or
\* should_log( levels ) decides; should_log runs only when the flag is not
\* set.  The messages reach the console as they were passed (the model's
\* environments have no trace=true in the URL).
Written(flag, levels, method, messages) ==
    IF flag
    THEN <<[method |-> method, messages |-> messages]>>
    ELSE InvalidLevelWarning
             \o (IF should_log(levels)
                 THEN <<[method |-> method, messages |-> messages]>>
                 ELSE <<>>)

LogWritten(messages) == Written(dev, {"info"}, "log", messages)
InfoWritten(messages) == Written(is_emulator, {"info"}, "info", messages)
WarnWritten(messages) == Written(dev, {"warn", "info"}, "warn", messages)

\* log.error (lines 162-173): should_log is the local constant of line 166,
\* and line 167 returns unless dev and should_log both hold; else
\* console.error and console.trace.
ErrorWritten(messages) ==
    LET local_should_log == dev \/ loglevel \in {"error", "warn", "info"}
    IN  IF ~dev \/ ~local_should_log
        THEN <<>>
        ELSE <<[method |-> "error", messages |-> messages],
               [method |-> "trace", messages |-> <<>>]>>

\* The messages a caller passes.
Message == Str("message")

\* A call of one of the four log functions.
LogCalled(fn, written) ==
    /\ n_calls < MaxCalls
    /\ n_calls' = n_calls + 1
    /\ console' = console \o written
    /\ last_call' = [fn |-> fn, wrote |-> written # <<>>]
    /\ UNCHANGED <<envVars, _cache>>

CallLog == LogCalled("log", LogWritten(<<Message>>))
CallLogInfo == LogCalled("log.info", InfoWritten(<<Message>>))
CallLogWarn == LogCalled("log.warn", WarnWritten(<<Message>>))
CallLogError == LogCalled("log.error", ErrorWritten(<<Message>>))

\* ------------------------------------------------------------------ cache.js

\* A key is a string, kept as the pieces it is made of; the pieces decide
\* what key.includes( 'undefined' ) says (line 27).
PlainKey == <<"string", "user">>
KeyWithUndefined == <<"string", "user_", "undefined">>
CacheKeys == {PlainKey, KeyWithUndefined}
Includes(key, piece) == \E k \in 2 .. Len(key) : key[k] = piece

\* The second argument: missing (undefined), or provided.
ProvidedValues == {JsZero, JsFalse, Str(""), JsNull, JsOne, Str("x")}
CacheValues == {Undefined} \cup ProvidedValues

\* _cache[ key ], and _cache after _cache[ key ] = value.
Lookup(store, key) == IF key \in DOMAIN store THEN store[key] ELSE Undefined
Assign(store, key, value) ==
    [k \in DOMAIN store \cup {key} |-> IF k = key THEN value ELSE store[k]]

\* A cache that stores whatever is not undefined.
StoresDefined(value) == value # Undefined

\* Line 31: the value is stored when it is truthy.
Stores(value) == Truthy(value)

\* cache( key, value ), lines 19-33.  With an undefined key line 23 warns
\* and line 27 throws a TypeError (undefined has no includes).
CallCache(key, value) ==
    /\ n_calls < MaxCalls
    /\ n_calls' = n_calls + 1
    /\ IF key = Undefined
       THEN /\ console' = console \o WarnWritten(<<Str("The cache key is undefined")>>)
            /\ last_call' = [fn |-> "cache", key |-> key, value |-> value,
                              threw |-> TRUE, returned |-> Undefined]
            /\ UNCHANGED _cache
       ELSE /\ console' = console \o
                   (IF Includes(key, "undefined")
                    THEN WarnWritten(<<Str("The cache key contains 'undefined'"), key>>)
                    ELSE <<>>)
            /\ _cache' = IF Stores(value) THEN Assign(_cache, key, value) ELSE _cache
            /\ last_call' = [fn |-> "cache", key |-> key, value |-> value,
                              threw |-> FALSE,
                              returned |-> Lookup(_cache', key)]
    /\ UNCHANGED envVars

\* Nothing was logged or cached.
UtilIdle ==
    /\ console = <<>>
    /\ _cache = [key \in {} |-> Undefined]
    /\ last_call = [fn |-> "none"]
    /\ n_calls = 0

\* The modules were imported in some environment and nothing of them is
\* used.
UtilUnused ==
    /\ dev = FALSE
    /\ is_emulator = FALSE
    /\ web_loglevel = JsFalse
    /\ node_loglevel = Undefined
    /\ UtilIdle

Config == <<entry, retry_times, cooldown_in_s, cooldown_entropy, policy_given, nTasks,
            max_parallel, fail_fast, input_kind>>

\* ------------------------------------------ specification: one retryable

\* const f = await make_retryable( task, options ); the caller calls f()
\* once.
InitRetry ==
    /\ entry = "make_retryable"
    /\ retry_times \in RetryTimesValues
    /\ cooldown_in_s \in CooldownValues
    /\ cooldown_entropy \in BOOLEAN
    /\ policy_given = TRUE
    /\ nTasks = 1
    /\ rstate = [i \in Tasks |-> "uncalled"]
    /\ retry_counter = [i \in Tasks |-> 0]
    /\ invocations = [i \in Tasks |-> 0]
    /\ settled = [i \in Tasks |-> Pending]
    /\ waited = [i \in Tasks |-> <<>>]
    /\ rlog = [i \in Tasks |-> <<>>]
    /\ max_parallel = 1
    /\ fail_fast = TRUE
    /\ input_kind = "functions"
    /\ ThrottleIdle
    /\ TimeoutIdle
    /\ UtilUnused

CallRetryable ==
    /\ StartRetrier(0)
    /\ jobs' = Append(jobs, InvokeJob(0))
    /\ UNCHANGED <<Config, throttleVars, timeoutVars, utilVars>>
Invoke == \E i \in Tasks : InvokeTask(i) /\ UNCHANGED <<Config, throttleVars, timeoutVars, utilVars>>
Fulfils == \E i \in Tasks : PromiseFulfils(i) /\ UNCHANGED <<Config, throttleVars, timeoutVars, utilVars>>
Fails == \E i \in Tasks : PromiseRejects(i) /\ UNCHANGED <<Config, throttleVars, timeoutVars, utilVars>>
Resolves == \E i \in Tasks : TaskResolves(i) /\ UNCHANGED <<Config, throttleVars, timeoutVars, utilVars>>
Rejects == \E i \in Tasks : TaskRejects(i) /\ UNCHANGED <<Config, throttleVars, timeoutVars, utilVars>>
CooldownOver == \E i \in Tasks : CooldownDone(i) /\ UNCHANGED <<Config, throttleVars, timeoutVars, utilVars>>
LibTimer == \E i \in Tasks : LibTimerFires(i) /\ UNCHANGED <<Config, throttleVars, timeoutVars, utilVars>>

NextRetry ==
    \/ CallRetryable
    \/ Invoke
    \/ Fulfils
    \/ Fails
    \/ Resolves
    \/ Rejects
    \/ CooldownOver
    \/ LibTimer

SpecRetry == InitRetry /\ [][NextRetry]_vars

\* -------------------------------------------------- specification: a batch

\* A throttle_and_retry that leaves the omitted fields to make_retryable.
DefaultPolicyOfRetryable(entry_fn) ==
    [retry_times |-> RetryableDefaultRetryTimes,
     cooldown_in_s |-> RetryableDefaultCooldownInS,
     cooldown_entropy |-> TRUE]

\* The values the destructuring of the options gives the fields the caller
\* omitted: those of line 72 in throttle_and_retry, which passes them on to
\* make_retryable (line 88), and those of line 15 in make_retryable.
DefaultPolicy(entry_fn) ==
    IF entry_fn = "throttle_and_retry"
    THEN [retry_times |-> BatchDefaultRetryTimes,
          cooldown_in_s |-> BatchDefaultCooldownInS,
          cooldown_entropy |-> FALSE]
    ELSE [retry_times |-> RetryableDefaultRetryTimes,
          cooldown_in_s |-> RetryableDefaultCooldownInS,
          cooldown_entropy |-> TRUE]

\* The caller calls throttle_and_retry once.
InitBatch ==
    /\ entry = "throttle_and_retry"
    /\ retry_times \in RetryTimesValues
    /\ cooldown_in_s = 5
    /\ cooldown_entropy = FALSE
    /\ policy_given = TRUE
    /\ nTasks \in 0 .. MaxTasks
    /\ retry_times > MaxRetryTimes => nTasks <= MaxDeepTasks
    /\ max_parallel \in 1 .. MaxParallel
    /\ fail_fast \in BOOLEAN
    /\ input_kind \in {"functions", "not_array", "has_non_function"}
    /\ rstate = [i \in Tasks |-> "uncalled"]
    /\ retry_counter = [i \in Tasks |-> 0]
    /\ invocations = [i \in Tasks |-> 0]
    /\ settled = [i \in Tasks |-> Pending]
    /\ waited = [i \in Tasks |-> <<>>]
    /\ rlog = [i \in Tasks |-> <<>>]
    /\ ThrottleIdle
    /\ TimeoutIdle
    /\ UtilUnused

Call == CallThrottle /\ UNCHANGED <<Config, timeoutVars, utilVars>>
CheckDone == \E i \in Tasks : NextCheckDone(i) /\ UNCHANGED <<Config, timeoutVars, utilVars>>
OnResolved == \E i \in Tasks : ThenResolved(i) /\ UNCHANGED <<Config, timeoutVars, utilVars>>
OnRejected == \E i \in Tasks : ThenRejected(i) /\ UNCHANGED <<Config, timeoutVars, utilVars>>
Settle == AllSettles /\ UNCHANGED <<Config, timeoutVars, utilVars>>

NextBatch ==
    \/ Call
    \/ CheckDone
    \/ OnResolved
    \/ OnRejected
    \/ Settle
    \/ Invoke
    \/ Fulfils
    \/ Fails
    \/ Resolves
    \/ Rejects
    \/ CooldownOver
    \/ LibTimer

SpecBatch == InitBatch /\ [][NextBatch]_vars

\* The caller calls throttle_and_retry once with functions, and with options
\* that hold a retry policy of the caller's choice or none of its fields.
InitBatchPolicy ==
    /\ entry = "throttle_and_retry"
    /\ policy_given \in BOOLEAN
    /\ IF policy_given
       THEN /\ retry_times \in 1 .. BatchDefaultRetryTimes
            /\ cooldown_in_s \in CooldownValues
            /\ cooldown_entropy \in BOOLEAN
       ELSE /\ retry_times = DefaultPolicy(entry).retry_times
            /\ cooldown_in_s = DefaultPolicy(entry).cooldown_in_s
            /\ cooldown_entropy = DefaultPolicy(entry).cooldown_entropy
    /\ nTasks \in 0 .. MaxPolicyTasks
    /\ max_parallel \in 1 .. MaxParallel
    /\ fail_fast \in BOOLEAN
    /\ input_kind = "functions"
    /\ rstate = [i \in Tasks |-> "uncalled"]
    /\ retry_counter = [i \in Tasks |-> 0]
    /\ invocations = [i \in Tasks |-> 0]
    /\ settled = [i \in Tasks |-> Pending]
    /\ waited = [i \in Tasks |-> <<>>]
    /\ rlog = [i \in Tasks |-> <<>>]
    /\ ThrottleIdle
    /\ TimeoutIdle
    /\ UtilUnused

SpecBatchPolicy == InitBatchPolicy /\ [][NextBatch]_vars

\* The same batch, run by an event loop that runs every queued reaction and
\* fires every timer that is due, with tasks whose promises all settle.
FairBatch ==
    /\ WF_vars(Call)
    /\ WF_vars(CheckDone)
    /\ WF_vars(OnResolved)
    /\ WF_vars(OnRejected)
    /\ WF_vars(Settle)
    /\ WF_vars(Invoke)
    /\ WF_vars(Fulfils \/ Fails)
    /\ WF_vars(Resolves)
    /\ WF_vars(Rejects)
    /\ WF_vars(CooldownOver)
    /\ WF_vars(LibTimer)

\* The batches run under fairness: fail_fast is off and retry_times is
\* small, or past the library's limit with a single task.
InitBatchLive ==
    /\ InitBatch
    /\ ~fail_fast
    /\ ValidInput(input_kind)
    /\ retry_times <= MaxLiveRetryTimes \/ retry_times > MaxRetryTimes
    /\ nTasks <= MaxLiveTasks

SpecBatchLive == InitBatchLive /\ [][NextBatch]_vars /\ FairBatch

\* The batches with fail_fast run under fairness.
InitFailFastLive ==
    /\ InitBatch
    /\ fail_fast
    /\ ValidInput(input_kind)
    /\ nTasks <= MaxFailFastTasks

SpecFailFastLive == InitFailFastLive /\ [][NextBatch]_vars /\ FairBatch

\* ------------------------------------------- specification: promise_timeout

\* No retrier and no batch exist.
RetryIdle ==
    /\ retry_times = 0
    /\ cooldown_in_s = 0
    /\ cooldown_entropy = FALSE
    /\ policy_given = TRUE
    /\ nTasks = 0
    /\ max_parallel = 1
    /\ fail_fast = TRUE
    /\ input_kind = "functions"
    /\ rstate = [i \in Tasks |-> "uncalled"]
    /\ retry_counter = [i \in Tasks |-> 0]
    /\ invocations = [i \in Tasks |-> 0]
    /\ settled = [i \in Tasks |-> Pending]
    /\ waited = [i \in Tasks |-> <<>>]
    /\ rlog = [i \in Tasks |-> <<>>]
    /\ ThrottleIdle

\* The caller calls promise_timeout once, with a promise that is pending or
\* has settled already.
InitTimeout ==
    /\ entry = "promise_timeout"
    /\ RetryIdle
    /\ throw_on_timeout \in BOOLEAN
    /\ op \in {Unsettled}
             \cup {[state |-> "resolved", value |-> v] : v \in OpValues}
             \cup {[state |-> "rejected", value |-> e] : e \in OpFailures}
    /\ timer = "none"
    /\ race = [state |-> "none", value |-> Undefined]
    /\ guard = [state |-> "none", value |-> Undefined]
    /\ adopted = FALSE
    /\ settle_order = <<>>
    /\ UtilUnused

PromisesIdle == <<Config, retrierVars, throttleVars, utilVars>>

CallGuard == CallTimeout /\ UNCHANGED PromisesIdle
OpResolved == OpFulfils /\ UNCHANGED PromisesIdle
OpRejected == OpRejects /\ UNCHANGED PromisesIdle
TimerFired == TimerFires /\ UNCHANGED PromisesIdle
RaceReacts == \E source \in {"op", "timer"} :
                  RaceReaction(source) /\ UNCHANGED PromisesIdle
Adopts == GuardAdopts /\ UNCHANGED PromisesIdle
GuardDone == GuardSettles /\ UNCHANGED PromisesIdle

NextTimeout ==
    \/ CallGuard
    \/ OpResolved
    \/ OpRejected
    \/ TimerFired
    \/ RaceReacts
    \/ Adopts
    \/ GuardDone

SpecTimeout == InitTimeout /\ [][NextTimeout]_vars

\* --------------------------------------------------- specification: logging

\* logging.js is imported in some environment and the caller calls the log
\* functions.
InitLog ==
    /\ entry = "log"
    /\ RetryIdle
    /\ TimeoutIdle
    /\ dev \in BOOLEAN
    /\ is_emulator \in BOOLEAN
    /\ web_loglevel \in WebLoglevels
    /\ node_loglevel \in NodeLoglevels
    /\ UtilIdle

AsyncIdle == <<Config, retrierVars, throttleVars, jobs, timeoutVars>>

Log == CallLog /\ UNCHANGED AsyncIdle
LogInfo == CallLogInfo /\ UNCHANGED AsyncIdle
LogWarn == CallLogWarn /\ UNCHANGED AsyncIdle
LogError == CallLogError /\ UNCHANGED AsyncIdle

NextLog ==
    \/ Log
    \/ LogInfo
    \/ LogWarn
    \/ LogError

SpecLog == InitLog /\ [][NextLog]_vars

\* ----------------------------------------------------- specification: cache

\* cache.js is imported in Node, with or without development mode and
\* LOG_LEVEL, and the caller calls cache.
InitCache ==
    /\ entry = "cache"
    /\ RetryIdle
    /\ TimeoutIdle
    /\ dev \in BOOLEAN
    /\ is_emulator = FALSE
    /\ web_loglevel = JsFalse
    /\ node_loglevel \in {Undefined, Str("warn")}
    /\ UtilIdle

Cache ==
    \E key \in CacheKeys \cup {Undefined} : \E value \in CacheValues :
        CallCache(key, value) /\ UNCHANGED AsyncIdle

NextCache == Cache

SpecCache == InitCache /\ [][NextCache]_vars

\* ------------------------------------------------------------------ claims

\* The tasks whose retryable function was called and has not settled.
InFlight ==
    {i \in Tasks : rstate[i] \in {"scheduled", "running", "fulfilled", "failed",
                                   "cooldown", "libwait"}}

\* What the last attempt of task i can have failed with.
LastFailure(i) == {Err(i, invocations[i]), Thrown(i, invocations[i])}

\* C1: a task whose every attempt fails (its promise rejects each time) has
\* been invoked exactly retry_times + 1 times when the retryable function
\* fails.
C1_FailingTaskInvokedRetryTimesPlusOne ==
    \A i \in Tasks :
        (rstate[i] = "rejected" /\ settled[i] \notin {Thrown(i, invocations[i])})
            => invocations[i] = retry_times + 1

\* C2: in a batch, the tasks started and not yet completed are never more
\* than max_parallel.
C2_InFlightAtMostMaxParallel ==
    entry = "throttle_and_retry" => Cardinality(InFlight) <= max_parallel

\* C2 witness: more tasks than max_parallel, max_parallel of them in flight
\* (one in a cooldown), one completed and one still waiting.
C2_Witness ==
    /\ nTasks > max_parallel
    /\ Cardinality(InFlight) = max_parallel
    /\ \E i \in Tasks : rstate[i] = "cooldown"
    /\ \E i \in Tasks : tslot[i] = "handled"
    /\ \E i \in Tasks : tslot[i] = "pending"

\* C3: when the batch resolves, the result has one entry per input task and
\* entry i is what task i's retryable function settled with.
C3_ResultAlignedWithInput ==
    batch.state = "resolved" =>
        /\ ArrayLength(batch.value) = nTasks
        /\ \A i \in Tasks :
              /\ rstate[i] \in {"resolved", "rejected"}
              /\ batch.value[i] = settled[i]

\* C3 witness: a batch resolved in which a later task completed before an
\* earlier one.
C3_Witness ==
    /\ batch.state = "resolved"
    /\ Len(rejectedIndexes) >= 2
    /\ rejectedIndexes[1] > rejectedIndexes[2]
    /\ \E i \in Tasks : rstate[i] = "resolved"

\* C4: with fail_fast, the batch fails with the failure payload the first
\* failed task produced, unchanged.
C4_FailFastPayloadIsTaskFailure ==
    (fail_fast /\ input_kind = "functions" /\ batch.state = "rejected") =>
        batch.value \in LastFailure(rejectedIndexes[1])

\* C5: with fail_fast, once a task has failed for good (Throttle has set
\* failedFast), no task that was not started is started.
C5_NoStartAfterFailFast ==
    [][failedFast =>
          \A i \in Tasks : rstate[i] = "uncalled" => rstate'[i] = "uncalled"]_vars

\* C6: without fail_fast the batch never fails because of a task, and when
\* it resolves every task has run to completion, a failed task's entry is
\* that task's failure and a successful task's entry is its value.
C6_ContinueOnErrorKeepsOutcomes ==
    (~fail_fast /\ input_kind = "functions") =>
        /\ batch.state # "rejected"
        /\ batch.state = "resolved" =>
              \A i \in Tasks :
                  \/ rstate[i] = "resolved" /\ batch.value[i] = Val(i, invocations[i])
                  \/ rstate[i] = "rejected" /\ batch.value[i] \in LastFailure(i)

\* C7: when the retryable function gives up, it fails with the failure the
\* task's last attempt produced, whatever retry_times is.
C7_FailurePayloadUnchanged ==
    \A i \in Tasks : rstate[i] = "rejected" => settled[i] \in LastFailure(i)

\* C8: when an attempt succeeds the retryable function resolves with that
\* attempt's value and the task is not invoked again; a task that succeeds
\* on its first attempt was invoked once, nothing was logged and nothing
\* waited for.
C8_SuccessEndsRetrying ==
    /\ [](\A i \in Tasks :
            rstate[i] = "resolved" =>
                /\ settled[i] = Val(i, invocations[i])
                /\ invocations[i] = retry_counter[i]
                /\ retry_counter[i] = 1 =>
                      (invocations[i] = 1 /\ rlog[i] = <<>> /\ waited[i] = <<>>))
    /\ [][\A i \in Tasks :
            rstate[i] = "resolved" =>
                /\ rstate'[i] = "resolved"
                /\ invocations'[i] = invocations[i]
                /\ settled'[i] = settled[i]]_vars

\* C8 witness: a retryable function resolved by its second attempt, after a
\* failed first one and a cooldown.
C8_Witness ==
    \E i \in Tasks :
        /\ rstate[i] = "resolved"
        /\ invocations[i] = 2
        /\ Len(waited[i]) = 1

\* C9: with retry_times = 0 a failing task is invoked once and the retryable
\* function fails without a cooldown.
C9_ZeroRetriesOneAttempt ==
    retry_times = 0 =>
        \A i \in Tasks :
            /\ invocations[i] <= 1
            /\ waited[i] = <<>>
            /\ rstate[i] \notin {"cooldown", "libwait"}
            /\ rstate[i] = "rejected" => invocations[i] = 1

\* C9 witness: retry_times = 0 and the retryable function failed with the
\* rejection of the first attempt.
C9_Witness ==
    /\ retry_times = 0
    /\ rstate[0] = "rejected"
    /\ settled[0] = Err(0, 1)

\* C10: a task that throws synchronously is retried while retries remain:
\* the retryable function fails with a thrown exception only when the
\* attempts are used up (line 31's own test).
C10_SyncThrowIsRetried ==
    \A i \in Tasks :
        (rstate[i] = "rejected" /\ settled[i] = Thrown(i, invocations[i]))
            => Exhausted(retry_counter[i], retry_times)

\* C11: without entropy, the k-th cooldown a retrier waits (the one before
\* retry number k) and the cooldown it reports to the logger are exactly
\* cooldown_in_s * 1000 * k milliseconds.
C11_CooldownIsLinearInAttempt ==
    ~cooldown_entropy =>
        \A i \in Tasks :
            /\ \A k \in 1 .. Len(waited[i]) :
                  waited[i][k] = cooldown_in_s * 1000 * k
            /\ \A k \in 1 .. Len(rlog[i]) :
                  rlog[i][k].message = "Retry failed, pausing..." =>
                      rlog[i][k].data.cooldown
                          = cooldown_in_s * 1000 * rlog[i][k].data.retry_counter

\* C11 witness: without entropy, a retrier that has waited three cooldowns
\* and is running its fourth attempt.
C11_Witness ==
    /\ ~cooldown_entropy
    /\ \E i \in Tasks :
          /\ Len(waited[i]) = 3
          /\ waited[i][3] = 3 * waited[i][1]
          /\ rstate[i] = "running"
          /\ invocations[i] = 4

\* C12: when async_function_array is not an array, or has an element that
\* is not a function, the call fails with the Error of line 79, and at no
\* moment is a task invoked, a retryable function called, or anything passed
\* to the logger.
C12_InvalidInputStartsNothing ==
    input_kind \in {"not_array", "has_non_function"} =>
        /\ batch.state \in {"none", "rejected"}
        /\ batch.state = "rejected" => batch.value = InputError
        /\ \A i \in Tasks : invocations[i] = 0 /\ rstate[i] = "uncalled"
                              /\ rlog[i] = <<>>
        /\ tlog = <<>>
        /\ jobs = <<>>

\* C12 witness: an array of several elements, one of them not a function,
\* was passed and the call has failed.
C12_Witness ==
    /\ input_kind = "has_non_function"
    /\ nTasks >= 2
    /\ batch.state = "rejected"
    /\ batch.value = InputError

\* Which of the operation and the timer happened first in a promise_timeout
\* call.
OpWasFirst == settle_order # <<>> /\ Head(settle_order) = "op"
TimerWasFirst == settle_order # <<>> /\ Head(settle_order) = "timer"

HasSettled(promise) == promise.state \in {"resolved", "rejected"}

\* C13: when the operation settles before the timer fires, the promise of
\* the race and the promise promise_timeout returned settle as the operation
\* did, with its value or its failure, and stay so when the timer fires
\* later.
C13_OperationFirstPropagates ==
    OpWasFirst =>
        /\ HasSettled(race) => race = op
        /\ HasSettled(guard) => guard = op

\* C13 witness: the operation failed with its own failure, the timer fired
\* afterwards, and promise_timeout has failed with the operation's failure.
C13_Witness ==
    /\ settle_order = <<"op", "timer">>
    /\ jobs = <<>>
    /\ op = [state |-> "rejected", value |-> OpErr]
    /\ guard = op

\* An error that says the timer fired.
TimeoutError == <<"Error", "Timeout">>

\* C14: when the timer fires first and throw_on_timeout is true,
\* promise_timeout fails with a Timeout error, a value no failure of the
\* operation can be.
C14_TimeoutIsDistinctError ==
    (throw_on_timeout /\ TimerWasFirst /\ HasSettled(guard)) =>
        /\ guard.state = "rejected"
        /\ guard.value = TimeoutError
        /\ guard.value \notin OpFailures

\* C15: when the timer fires first and throw_on_timeout is false,
\* promise_timeout resolves with 'timed out' and never takes the value the
\* operation settles with later.
C15_TimeoutResolvesWithSentinel ==
    (~throw_on_timeout /\ TimerWasFirst) =>
        /\ HasSettled(race) => race = [state |-> "resolved", value |-> TimedOut]
        /\ HasSettled(guard) => guard = [state |-> "resolved", value |-> TimedOut]

\* C15 witness: the timer fired, promise_timeout resolved with 'timed out',
\* and the operation resolved with its value afterwards.
C15_Witness ==
    /\ ~throw_on_timeout
    /\ settle_order = <<"timer", "op">>
    /\ jobs = <<>>
    /\ op = [state |-> "resolved", value |-> OpVal]
    /\ guard = [state |-> "resolved", value |-> TimedOut]

\* C16: a call with an empty array of tasks passes the logger the two
\* messages of lines 86 and 100 and nothing else, starts nothing, has its
\* resolution queued as soon as it is called, and resolves with an empty
\* result.
C16_EmptyBatchResolvesEmpty ==
    (ValidInput(input_kind) /\ nTasks = 0) =>
        /\ tlog \in {<<>>, <<LogCreating(0), LogStarting(0, max_parallel, fail_fast)>>}
        /\ amountStarted = 0 /\ amountDone = 0
        /\ batch.state # "rejected"
        /\ batch.state = "pending" => jobs = <<SettleJob>>
        /\ batch.state = "resolved" =>
              /\ DOMAIN batch.value = {}
              /\ ArrayLength(batch.value) = 0
              /\ jobs = <<>>

\* C16 witness: a call with an empty array has resolved.
C16_Witness ==
    /\ ValidInput(input_kind)
    /\ nTasks = 0
    /\ batch.state = "resolved"
    /\ Len(tlog) = 2

\* An object with exactly the fields message and data.
IsProgressEvent(v) == DOMAIN v = {"message", "data"}

\* C17: every value passed to the logger, by a task's retrier, by
\* throttle_and_retry or by Throttle, is an object { message, data }.
C17_LoggerGetsProgressEvents ==
    /\ \A i \in Tasks : \A k \in 1 .. Len(rlog[i]) : IsProgressEvent(rlog[i][k])
    /\ \A k \in 1 .. Len(tlog) : IsProgressEvent(tlog[k])

\* C18: without fail_fast, a batch of tasks whose promises all settle never
\* fails, and eventually every task, however many more than max_parallel
\* there are, has been invoked and handled and the batch has resolved.
C18_EveryTaskStartsAndBatchResolves ==
    (~fail_fast /\ ValidInput(input_kind)) =>
        /\ [](batch.state # "rejected")
        /\ <>(/\ batch.state = "resolved"
              /\ \A i \in Tasks : invocations[i] >= 1 /\ tslot[i] = "handled")

\* C18 witness: without fail_fast, a batch of two tasks more than
\* max_parallel has resolved; the first task failed for good and the last
\* one, which had to wait for a slot, was invoked and succeeded.
C18_Witness ==
    /\ ~fail_fast
    /\ nTasks = max_parallel + 2
    /\ batch.state = "resolved"
    /\ rstate[0] = "rejected"
    /\ rstate[nTasks - 1] = "resolved"
    /\ invocations[nTasks - 1] = 1

\* C19: cache( key, value ) with a provided value (0, false, '' and null
\* included) returns that value and leaves it stored under the key, and
\* cache( key ) without a value returns what is stored and changes nothing.
C19_CacheStoresEveryProvidedValue ==
    /\ []((last_call.fn = "cache" /\ last_call.key # Undefined
              /\ last_call.value \in ProvidedValues) =>
               /\ last_call.returned = last_call.value
               /\ Lookup(_cache, last_call.key) = last_call.value)
    /\ [][(n_calls' = n_calls + 1 /\ last_call'.fn = "cache"
              /\ last_call'.value = Undefined) =>
               /\ _cache' = _cache
               /\ last_call'.key # Undefined =>
                      last_call'.returned = Lookup(_cache, last_call'.key)]_vars

\* C20: a call of log.error writes to the console exactly when dev is set
\* or loglevel is one of 'error', 'warn', 'info'.
C20_ErrorLogsInDevOrAtLevel ==
    last_call.fn = "log.error" =>
        (last_call.wrote <=> (dev \/ loglevel \in {"error", "warn", "info"}))

\* The level set through ?loglevel= or LOG_LEVEL=, if one is set.
LevelIsSet == Truthy(web_loglevel) \/ Truthy(node_loglevel)
LevelSet == IF Truthy(web_loglevel) THEN web_loglevel[2] ELSE node_loglevel[2]

\* C21: the exported loglevel is the level set through the URL parameter
\* or LOG_LEVEL when one is set, and else 'info' in development and 'error'
\* outside it.
C21_LoglevelIsTheLevelSet ==
    loglevel = IF LevelIsSet THEN LevelSet
               ELSE IF dev THEN "info" ELSE "error"

\* The number of entries of a retrier's log with a given message.
Count(log, message) == Cardinality({k \in 1 .. Len(log) : log[k].message = message})

\* The milliseconds a retrier that has logged 'Cooldown complete,
\* continuing...' still waits before the task is invoked again.
DelayAfterCooldown(i) ==
    IF rstate[i] = "libwait" THEN LibTimeoutMs(retry_counter[i]) ELSE 0

\* C22: each failed attempt that is retried is followed, in this order, by
\* 'Retry failed, pausing...' with the computed cooldown, a wait of exactly
\* that cooldown, 'Cooldown complete, continuing...', and the next
\* invocation, with no other delay between the end of the cooldown and
\* that invocation.
C22_RetryEventsInOrder ==
    \A i \in Tasks :
        /\ \A k \in 1 .. Len(waited[i]) :
              /\ rlog[i][2 * k - 1].message = "Retry failed, pausing..."
              /\ rlog[i][2 * k - 1].data.cooldown = waited[i][k]
              /\ rlog[i][2 * k - 1].data.retry_counter = k
              /\ 2 * k <= Len(rlog[i]) =>
                    rlog[i][2 * k].message = "Cooldown complete, continuing..."
        /\ rstate[i] = "cooldown" =>
              /\ invocations[i] = Len(waited[i])
              /\ Count(rlog[i], "Cooldown complete, continuing...") = Len(waited[i]) - 1
        /\ rstate[i] \in {"scheduled", "running", "fulfilled", "failed"} =>
              /\ invocations[i] \in {Len(waited[i]), Len(waited[i]) + 1}
              /\ Count(rlog[i], "Cooldown complete, continuing...") = Len(waited[i])
        /\ DelayAfterCooldown(i) = 0

\* The retryable function of task i has been called by Throttle.
Started(i) == rstate[i] # "uncalled"

\* C23: tasks are started in input order: when task j has been started,
\* every task before it has been started, and when task j has been invoked,
\* every task before it has been invoked.
C23_StartedInInputOrder ==
    \A j \in Tasks : \A i \in 0 .. (j - 1) :
        /\ Started(j) => Started(i)
        /\ invocations[j] >= 1 => invocations[i] >= 1

\* C23 witness: three tasks on two slots; the second has completed and the
\* third was started in its place while the first is still waiting in its
\* cooldown.
C23_Witness ==
    /\ nTasks = 3
    /\ max_parallel = 2
    /\ rstate[0] = "cooldown"
    /\ tslot[1] = "handled"
    /\ rstate[2] = "running"

\* The retryable function of task i has settled.
Completed(i) == rstate[i] \in {"resolved", "rejected"}

\* C24: a task is started only while fewer than max_parallel tasks are in
\* flight, a task in its cooldown counting as in flight; and a task beyond
\* the first max_parallel is started only when a task has completed, by
\* success or by failing for good.
C24_CooldownKeepsSlot ==
    [][\A j \in Tasks :
          (rstate[j] = "uncalled" /\ rstate'[j] # "uncalled") =>
              /\ Cardinality(InFlight) < max_parallel
              /\ j >= max_parallel =>
                    Cardinality({i \in Tasks : Completed(i)}) >= j + 1 - max_parallel]_vars

\* C24 witness: three tasks on two slots; the first failed for good on its
\* second attempt and only then was the third started, while the second
\* sits in its cooldown.
C24_Witness ==
    /\ nTasks = 3
    /\ max_parallel = 2
    /\ rstate[0] = "rejected"
    /\ invocations[0] = 2
    /\ rstate[1] \in {"cooldown", "libwait"}
    /\ rstate[2] = "scheduled"

\* C25: with fail_fast, a task that is in flight once the batch has failed
\* is not cancelled: it goes on through its attempts and cooldowns and its
\* retryable function eventually settles, by success or by failure.
C25_InFlightTasksRunOn ==
    /\ [][\A i \in Tasks : Completed(i) => rstate'[i] = rstate[i]]_vars
    /\ [](failedFast => <>(\A i \in Tasks : Started(i) => Completed(i)))

\* C25 witness: the batch failed by its first task while the second was in
\* flight; the second went on, succeeded on its second attempt after a
\* cooldown, and Throttle handled its completion after the failure.
C25_Witness ==
    /\ fail_fast
    /\ batch.state = "rejected"
    /\ rejectedIndexes = <<0>>
    /\ amountDone = 0
    /\ nTasks >= 2
    /\ rstate[1] = "resolved"
    /\ invocations[1] = 2
    /\ tslot[1] = "handled"

\* The resolution or rejection of the batch promise is in the job queue.
SettleQueued == \E k \in 1 .. Len(jobs) : jobs[k] = SettleJob

\* C26: with fail_fast, as soon as Throttle has handled a first terminal
\* failure the rejection of the batch is in the job queue, ahead of every
\* timer, whatever the other tasks are doing; the batch is rejected with that
\* failure and stays so while the tasks in flight run on.
C26_FailFastDeliversAtOnce ==
    (fail_fast /\ rejectedIndexes # <<>>) =>
        /\ failedFast
        /\ \/ batch.state = "pending" /\ SettleQueued
           \/ /\ batch.state = "rejected"
              /\ batch.value = settled[rejectedIndexes[1]]

\* C26 witness: the first task threw at its first invocation and the batch
\* was rejected with it; the second task, in flight, has since finished a
\* cooldown, logged it and invoked its task function again.
C26_Witness ==
    /\ fail_fast
    /\ batch.state = "rejected"
    /\ batch.value = Thrown(0, 1)
    /\ nTasks >= 2
    /\ rstate[1] = "running"
    /\ invocations[1] = 2
    /\ Len(rlog[1]) = 2

\* The attempts of task i that failed and were followed by a cooldown.
OwnRetriedFailures(i) == Len(waited[i])

\* C27: Throttle queues the start of a task only while its retryable
\* function is uncalled, so no retry sequence is started twice and none
\* starts over; task i is invoked once and then once more for each of its own
\* failures that was followed by a cooldown, never more often than the policy
\* allows, and it gives up with a failure of its own only when its own
\* attempt number has reached retry_times.
C27_TasksRetryOnTheirOwn ==
    /\ [][\A i \in Tasks :
            /\ Started(i) => Started(i)'
            /\ retry_counter'[i] >= retry_counter[i]
            /\ invocations'[i] >= invocations[i]]_vars
    /\ [](\A k \in 1 .. Len(jobs) : \A i \in Tasks :
            jobs[k] = CheckJob(i) =>
               /\ ~Started(i)
               /\ \A m \in 1 .. Len(jobs) : jobs[m] = jobs[k] => m = k)
    /\ [](\A i \in Tasks :
            /\ invocations[i] \in {OwnRetriedFailures(i), OwnRetriedFailures(i) + 1}
            /\ Started(i) =>
                  /\ retry_counter[i] >= 1
                  /\ retry_counter[i] \in {OwnRetriedFailures(i), OwnRetriedFailures(i) + 1}
                  /\ invocations[i] \in {retry_counter[i] - 1, retry_counter[i]}
            /\ invocations[i] <= Larger(1, Min(retry_times, LibRetries + 1))
            /\ \A n \in 1 .. (LibRetries + 1) :
                  (rstate[i] = "rejected" /\ settled[i] = Err(i, n)) =>
                      /\ n = invocations[i]
                      /\ n = OwnRetriedFailures(i) + 1
                      /\ n >= retry_times)

\* C27 witness: in one batch of two tasks with retry_times 2 the first
\* failed twice and was invoked twice, the second succeeded at once and was
\* invoked once.
C27_Witness ==
    /\ nTasks = 2
    /\ retry_times = 2
    /\ rstate[0] = "rejected" /\ settled[0] = Err(0, 2) /\ invocations[0] = 2
    /\ rstate[1] = "resolved" /\ settled[1] = Val(1, 1) /\ invocations[1] = 1
    /\ tslot[0] = "handled" /\ tslot[1] = "handled"

\* C28: when max_parallel is at least the number of tasks, no task has
\* completed while the retryable function of another is still uncalled:
\* every task is started before the first completion.
C28_AllStartedBeforeAnyCompletes ==
    (ValidInput(input_kind) /\ max_parallel >= nTasks) =>
        ((\E i \in Tasks : Completed(i)) => \A j \in Tasks : Started(j))

\* C28 witness: of two tasks under max_parallel 2 the first has succeeded
\* while the second, started with it, is still running its first attempt.
C28_Witness ==
    /\ nTasks = 2
    /\ max_parallel = 2
    /\ rstate[0] = "resolved"
    /\ rstate[1] = "running"
    /\ invocations[1] = 1

\* The retry policy (times, in_s, with_entropy) is the one every task of the
\* batch ran under: its logger messages carry it, its waits are the cooldowns
\* it gives, and it was invoked as often as it allows and gave up with a
\* failure of its own no sooner.
PolicyApplied(times, in_s, with_entropy) ==
    \A i \in Tasks :
        /\ \A k \in 1 .. Len(rlog[i]) :
              /\ rlog[i][k].data.retry_times = times
              /\ rlog[i][k].message = "Retry failed, pausing..." =>
                    /\ rlog[i][k].data.cooldown_in_s = in_s
                    /\ \E entropy_ms \in EntropyChoices(with_entropy) :
                          rlog[i][k].data.cooldown =
                             Cooldown(in_s, entropy_ms, rlog[i][k].data.retry_counter)
        /\ \A k \in 1 .. Len(waited[i]) :
              \E entropy_ms \in EntropyChoices(with_entropy) :
                  waited[i][k] = Cooldown(in_s, entropy_ms, k)
        /\ invocations[i] <= Larger(1, Min(times, LibRetries + 1))
        /\ \A n \in 1 .. (LibRetries + 1) :
              (rstate[i] = "rejected" /\ settled[i] = Err(i, n)) => n >= times

\* C30 as stated: every task of a batch runs under the call's retry policy,
\* and when the caller omitted its fields that policy is retry_times 5,
\* cooldown 10 seconds, with entropy.
C30_OmittedPolicyIsRetryableDefault ==
    /\ PolicyApplied(retry_times, cooldown_in_s, cooldown_entropy)
    /\ ~policy_given =>
          PolicyApplied(RetryableDefaultRetryTimes, RetryableDefaultCooldownInS, TRUE)

\* C30, amended: every task of a batch runs under the call's retry policy,
\* and when the caller omitted its fields that policy is throttle_and_retry's
\* own default: retry_times 2, cooldown 5 seconds, no entropy.
C30_OmittedPolicyIsBatchDefault ==
    /\ PolicyApplied(retry_times, cooldown_in_s, cooldown_entropy)
    /\ ~policy_given =>
          PolicyApplied(BatchDefaultRetryTimes, BatchDefaultCooldownInS, FALSE)

\* C30 witness: the caller omitted the policy; both tasks of the batch failed
\* once, waited 5000 ms, were invoked again and failed for good.
C30_Witness ==
    /\ ~policy_given
    /\ nTasks = 2
    /\ \A i \in Tasks :
          /\ waited[i] = <<1000 * BatchDefaultCooldownInS>>
          /\ invocations[i] = BatchDefaultRetryTimes
          /\ rstate[i] = "rejected"
          /\ settled[i] = Err(i, BatchDefaultRetryTimes)

\* C31: within one retry sequence every cooldown is strictly longer than the
\* one before it, whatever entropy each of them drew.
C31_CooldownStrictlyIncreasing ==
    \A i \in Tasks : \A k \in 1 .. Len(waited[i]) :
        k > 1 => waited[i][k] > waited[i][k - 1]

\* What promise_timeout delivers: the operation's outcome when the operation
\* settled first, the timeout's when the timer fired first.
Decided ==
    IF OpWasFirst THEN op ELSE TimeoutOutcome(throw_on_timeout)

\* C32: the outcome of promise_timeout is that of whichever of the operation
\* and the timer settled first, and once the race or the returned promise has
\* settled it never changes.  The loser is left alone: after the timer won, a
\* pending operation can still succeed; after the operation won, the timer
\* still fires.
C32_DecidedOnceByTheFirst ==
    /\ [][/\ HasSettled(race) => race' = race
          /\ HasSettled(guard) => guard' = guard
          /\ HasSettled(op) => op' = op]_vars
    /\ [](/\ HasSettled(race) => race = Decided
          /\ HasSettled(guard) => guard = Decided
          /\ (TimerWasFirst /\ op.state = "pending") => ENABLED OpResolved
          /\ (OpWasFirst /\ timer = "armed" /\ jobs = <<>>) => ENABLED TimerFired)

\* C32 witness: the timer won and promise_timeout failed; the operation,
\* still running, failed afterwards with its own failure, and the outcome
\* delivered stayed the timeout's.
C32_Witness ==
    /\ throw_on_timeout
    /\ settle_order = <<"timer", "op">>
    /\ jobs = <<>>
    /\ op = [state |-> "rejected", value |-> OpErr]
    /\ guard = TimeoutOutcome(throw_on_timeout)
    /\ race = guard

\* C33: when the operation has settled before promise_timeout is called, the
\* operation is the first of the race, and the race and the promise
\* promise_timeout returned settle with the operation's outcome and keep it,
\* however soon the timer fires.
C33_SettledOperationAlwaysWins ==
    (guard.state = "none" /\ HasSettled(op)) =>
        [](/\ guard.state # "none" => OpWasFirst
           /\ HasSettled(race) => race = op
           /\ HasSettled(guard) => guard = op
           /\ timer = "fired" => HasSettled(guard))

\* C33 witness: the race took the value of the operation before the async
\* function's promise had subscribed to it, which only an operation settled
\* before the call brings about; the timer has not fired.
C33_Witness ==
    /\ op = [state |-> "resolved", value |-> OpVal]
    /\ race = op
    /\ ~adopted
    /\ jobs = <<ThenableJob>>
    /\ timer = "armed"
    /\ guard = Unsettled

=============================================================================
